---- MODULE Spec2Model ----
(***************************************************************************)
(* binlogIO (internal/datanode/binlog_io.go): the datanode's download and  *)
(* upload of insert, stats and delta binlogs through a chunk manager, an   *)
(* ID allocator and the shared read pool.                                  *)
(***************************************************************************)
EXTENDS Integers, Sequences, FiniteSets, TLC

\* ------------------------------------------------------------------ bounds
\* Keys of one download call.
MaxPaths == 2
\* Workers of the shared pool.
PoolSize == 2

\* ------------------------------------------------------- fixtures and types
\* The callers: each makes one call, so two calls run in any order or overlap.
Callers == {"c1", "c2"}
\* The collection's schema: its ID and its fields (the first is the primary key).
Meta == [ID |-> 1, Fields |-> <<100>>]
SegIDs == {7}
PartIDs == {3}
\* Rows of an insert or delete batch: the empty batch, and one with a row.
RowCounts == {0, 1}
\* The segment's total row count handed to uploadStatsLog.
TotRowCounts == {1}

Nil == [nil |-> TRUE, v |-> <<>>]
Some(x) == [nil |-> FALSE, v |-> x]

\* ------------------------------------------------------------ pure helpers
RECURSIVE FormatInt(_)
\* strconv.FormatInt(n, 10), as the sequence of the decimal digits of n >= 0.
FormatInt(n) == IF n < 10 THEN <<n>> ELSE Append(FormatInt(n \div 10), n % 10)

RECURSIVE ParseInt(_)
\* strconv.ParseInt(s, 10, 64) of a digit sequence.
ParseInt(s) ==
    IF s = <<>> THEN 0 ELSE ParseInt(SubSeq(s, 1, Len(s) - 1)) * 10 + s[Len(s)]

RootPath == "files"
SegmentInsertLogPath == "insert_log"
SegmentStatslogPath == "stats_log"
SegmentDeltaLogPath == "delta_log"

\* metautil.JoinIDPath(ids...): the decimal forms of the ids, one path segment each.
JoinIDPath(ids) == [i \in 1..Len(ids) |-> FormatInt(ids[i])]

\* path.Join(root, sub, k): the path's segments in order.
PathJoin(root, sub, k) == <<root, sub>> \o k

\* The last segment of a key, as a number: the disambiguator.
KeyIdx(key) == ParseInt(key[Len(key)])

\* A key without its disambiguator.
InsertKeyMut(collID, partID, segID, fID, idx) ==
    PathJoin(RootPath, SegmentInsertLogPath, JoinIDPath(<<collID, partID, segID, fID>>))

InsertKey(collID, partID, segID, fID, idx) ==
    PathJoin(RootPath, SegmentInsertLogPath, JoinIDPath(<<collID, partID, segID, fID, idx>>))

\* A stats key under the insert logs' subpath.
StatsKeyMut(collID, partID, segID, fID, idx) ==
    PathJoin(RootPath, SegmentInsertLogPath, JoinIDPath(<<collID, partID, segID, fID, idx>>))

StatsKey(collID, partID, segID, fID, idx) ==
    PathJoin(RootPath, SegmentStatslogPath, JoinIDPath(<<collID, partID, segID, fID, idx>>))

DeltaKey(collID, partID, segID, idx) ==
    PathJoin(RootPath, SegmentDeltaLogPath, JoinIDPath(<<collID, partID, segID, idx>>))

\* kvs[key] = value of a Go map: a second assignment to a key replaces the first.
MapPut(m, k, v) == [x \in DOMAIN m \cup {k} |-> IF x = k THEN v ELSE m[x]]

\* InsertCodec.Serialize: one blob per schema field, keyed by the field ID's
\* decimal form, holding the field's column of `rows` values.
SerializeInsert(rows) ==
    [i \in 1..Len(Meta.Fields) |->
        [t |-> "insert", Key |-> FormatInt(Meta.Fields[i]),
         Value |-> [j \in 1..rows |-> Meta.Fields[i]], RowNum |-> rows]]

\* InsertCodec.SerializePkStats: one blob keyed by the primary key's field ID.
SerializePkStats(totRows) ==
    [t |-> "stats", Key |-> FormatInt(Meta.Fields[1]),
     Value |-> <<0>> \o [j \in 1..totRows |-> 1], RowNum |-> totRows]

\* DeleteCodec.Serialize: one blob for the whole delete batch.
SerializeDelete(rows) ==
    [t |-> "delta", Key |-> <<>>, Value |-> [j \in 1..rows |-> 2], RowNum |-> rows]

\* The entry with its size and its row count in each other's place.
BinlogMut(size, key, n) == [LogSize |-> n, LogPath |-> key, EntriesNum |-> size]

Binlog(size, key, n) == [LogSize |-> size, LogPath |-> key, EntriesNum |-> n]
FieldBinlog(fID, size, key, n) == [FieldID |-> fID, Binlogs |-> <<Binlog(size, key, n)>>]

\* ------------------------------------------------------------------- state
VARIABLES
    store,    \* the chunk manager's blobs: key -> bytes
    nextID,   \* the allocator: the next ID it hands out
    issued,   \* every key generated so far
    op,       \* per caller: the call it is in (or was last in)
    arg,      \* per caller: that call's inputs
    phase,    \* per caller: idle, gen (building kvs), await (tasks submitted), done
    ctx,      \* per caller: the call's context: live, or cancelled (early: during
              \* writeAll, before any of its writes succeeded; done: at another time)
    todo,     \* per caller: serialized blobs still without a key
    kvs,      \* per caller: the write batch, key -> bytes
    out,      \* per caller: the FieldBinlog maps built so far
    wtask,    \* per caller: its write tasks, key -> [pc, err]
    paths,    \* per caller: the keys of its download
    rtask,    \* per caller: its read tasks, index -> [pc, n, err, val]
    ret       \* per caller: what the call returned

vars == <<store, nextID, issued, op, arg, phase, ctx, todo, kvs, out, wtask,
          paths, rtask, ret>>

NoArg == [seg |-> 0, part |-> 0, rows |-> 0, tot |-> 0]
NoOut == [inPaths |-> Nil, statPaths |-> Nil, deltaInfo |-> Nil]
NoRet == [err |-> "unset", a |-> Nil, b |-> Nil]

Init ==
    /\ store = <<>>
    /\ nextID = 1
    /\ issued = {}
    /\ op = [c \in Callers |-> "none"]
    /\ arg = [c \in Callers |-> NoArg]
    /\ phase = [c \in Callers |-> "idle"]
    /\ ctx = [c \in Callers |-> "live"]
    /\ todo = [c \in Callers |-> <<>>]
    /\ kvs = [c \in Callers |-> <<>>]
    /\ out = [c \in Callers |-> NoOut]
    /\ wtask = [c \in Callers |-> <<>>]
    /\ paths = [c \in Callers |-> <<>>]
    /\ rtask = [c \in Callers |-> <<>>]
    /\ ret = [c \in Callers |-> NoRet]

\* ----------------------------------------------------------- shared parts
Done(x) == x # "live"

ReadFinished(t) == t.pc \in {"ok", "fail"}
WriteFinished(t) == t.pc \in {"ok", "canceled"}

\* A caller that has not made its call yet.
Free(c) == phase[c] = "idle"

\* Tasks holding a worker of the pool.
Busy ==
    {<<c, k>> \in UNION {{c} \X DOMAIN wtask[c] : c \in Callers} :
        wtask[c][k].pc \in {"head", "writing"}}
    \cup {<<c, i>> \in UNION {{c} \X DOMAIN rtask[c] : c \in Callers} :
        rtask[c][i].pc = "run"}

\* conc.Pool: a submitted task starts when a worker is free.
WorkerFree == Cardinality(Busy) < PoolSize

\* A call's entry: its locals are fresh.
Enter(c, o, a, ph, td, ot, r) ==
    /\ op' = [op EXCEPT ![c] = o]
    /\ arg' = [arg EXCEPT ![c] = a]
    /\ ctx' = [ctx EXCEPT ![c] = "live"]
    /\ phase' = [phase EXCEPT ![c] = ph]
    /\ todo' = [todo EXCEPT ![c] = td]
    /\ out' = [out EXCEPT ![c] = ot]
    /\ ret' = [ret EXCEPT ![c] = r]
    /\ kvs' = [kvs EXCEPT ![c] = <<>>]
    /\ wtask' = [wtask EXCEPT ![c] = <<>>]
    /\ paths' = [paths EXCEPT ![c] = <<>>]
    /\ rtask' = [rtask EXCEPT ![c] = <<>>]

\* A call's return before uploadSegmentFiles: kvs keeps what was generated.
Leave(c, r) ==
    /\ phase' = [phase EXCEPT ![c] = "done"]
    /\ ret' = [ret EXCEPT ![c] = r]
    /\ todo' = [todo EXCEPT ![c] = <<>>]
    /\ out' = [out EXCEPT ![c] = NoOut]
    /\ UNCHANGED <<op, arg, ctx, kvs, wtask, paths, rtask>>

Result(e, a, b) == [err |-> e, a |-> a, b |-> b]

\* InsertData.IsEmpty
IsEmpty(rows) == rows = 0

\* A missing guard: the batch is never taken for empty.
InsertSkipsMut(rows) == FALSE

\* A wrong guard: insert blobs are generated whatever the batch holds.
StatsWithInsertMut(rows) == TRUE

\* A wrong error return: the maps built so far come back with the error.
GenFailureMut(e) == Result(e, Some(<<>>), Some(<<>>))

\* What an upload returns when the codec or the allocator failed with e.
GenFailure(e) == Result(e, Nil, Nil)

\* ---------------------------------------------------------------- uploads
\* uploadInsertLog's guard: an empty batch returns before anything is built.
InsertSkips(rows) == IsEmpty(rows)

\* uploadStatsLog's guard: insert blobs are generated for a non-empty batch.
StatsWithInsert(rows) == ~IsEmpty(rows)

\* uploadDeltaLog's guard: a batch without rows returns before anything is built.
DeltaSkips(rows) == ~(rows > 0)

\* genInsertBlobs up to its loop: Serialize, then GetGenerator. The outcomes:
\* an error of either, or the blobs to be keyed.
GenInsertOutcomes(rows) ==
    {[err |-> "codec", blobs |-> <<>>], [err |-> "alloc", blobs |-> <<>>],
     [err |-> "nil", blobs |-> SerializeInsert(rows)]}

UploadInsertLog(c) ==
    \E seg \in SegIDs, part \in PartIDs, rows \in RowCounts :
        LET a == [seg |-> seg, part |-> part, rows |-> rows, tot |-> 0] IN
        /\ Free(c)
        /\ IF InsertSkips(rows)
           THEN Enter(c, "insert", a, "done", <<>>, NoOut, Result("nil", Nil, Nil))
           ELSE \E g \in GenInsertOutcomes(rows) :
                   IF g.err # "nil"
                   THEN Enter(c, "insert", a, "done", <<>>, NoOut,
                              GenFailure(g.err))
                   ELSE Enter(c, "insert", a, "gen", g.blobs,
                              [NoOut EXCEPT !.inPaths = Some(<<>>)], NoRet)
        /\ UNCHANGED <<store, nextID, issued>>

UploadStatsLog(c) ==
    \E seg \in SegIDs, part \in PartIDs, rows \in RowCounts, tot \in TotRowCounts :
        LET a == [seg |-> seg, part |-> part, rows |-> rows, tot |-> tot]
            st == <<[t |-> "stats"]>>
        IN
        /\ Free(c)
        /\ IF StatsWithInsert(rows)
           THEN \E g \in GenInsertOutcomes(rows) :
                   IF g.err # "nil"
                   THEN Enter(c, "stats", a, "done", <<>>, NoOut,
                              GenFailure(g.err))
                   ELSE Enter(c, "stats", a, "gen", g.blobs \o st,
                              [NoOut EXCEPT !.inPaths = Some(<<>>)], NoRet)
           ELSE Enter(c, "stats", a, "gen", st, NoOut, NoRet)
        /\ UNCHANGED <<store, nextID, issued>>

UploadDeltaLog(c) ==
    \E seg \in SegIDs, part \in PartIDs, rows \in RowCounts :
        LET a == [seg |-> seg, part |-> part, rows |-> rows, tot |-> 0] IN
        /\ Free(c)
        /\ IF DeltaSkips(rows)
           THEN Enter(c, "delta", a, "done", <<>>, NoOut, Result("nil", Nil, Nil))
           ELSE Enter(c, "delta", a, "gen", <<[t |-> "delta"]>>, NoOut, NoRet)
        /\ UNCHANGED <<store, nextID, issued>>

\* The key without the root and the log type's subpath: k for key.
InsertLogPathMut(key) == SubSeq(key, 3, Len(key))

\* LogPath: key, the path the blob goes into kvs under.
InsertLogPath(key) == key

\* genInsertBlobs' loop body: the next blob gets its key from the generator's
\* next ID and goes into kvs and inpaths.
GenInsertKey(c) ==
    /\ phase[c] = "gen"
    /\ todo[c] # <<>>
    /\ Head(todo[c]).t = "insert"
    /\ LET blob == Head(todo[c])
           fID == ParseInt(blob.Key)
           key == InsertKey(Meta.ID, arg[c].part, arg[c].seg, fID, nextID)
           fileLen == Len(blob.Value)
       IN
       /\ kvs' = [kvs EXCEPT ![c] = MapPut(@, key, blob.Value)]
       /\ out' = [out EXCEPT ![c].inPaths =
                     Some(MapPut(@.v, fID,
                                 FieldBinlog(fID, fileLen, InsertLogPath(key),
                                             blob.RowNum)))]
       /\ issued' = issued \cup {key}
    /\ nextID' = nextID + 1
    /\ todo' = [todo EXCEPT ![c] = Tail(@)]
    /\ UNCHANGED <<store, op, arg, phase, ctx, wtask, paths, rtask, ret>>

\* genStatBlobs: SerializePkStats, AllocOne, then the key, kvs and statPaths.
GenStatBlobs(c) ==
    /\ phase[c] = "gen"
    /\ todo[c] # <<>>
    /\ Head(todo[c]).t = "stats"
    /\ \E e \in {"nil", "codec", "alloc"} :
        IF e # "nil"
        THEN /\ Leave(c, GenFailure(e))
             /\ UNCHANGED <<store, nextID, issued>>
        ELSE /\ LET statBlob == SerializePkStats(arg[c].tot)
                    fID == ParseInt(statBlob.Key)
                    key == StatsKey(Meta.ID, arg[c].part, arg[c].seg, fID, nextID)
                    fileLen == Len(statBlob.Value)
                IN
                /\ kvs' = [kvs EXCEPT ![c] = MapPut(@, key, statBlob.Value)]
                /\ out' = [out EXCEPT ![c].statPaths =
                              Some(MapPut(<<>>, fID,
                                          FieldBinlog(fID, fileLen, key, arg[c].tot)))]
                /\ issued' = issued \cup {key}
             /\ nextID' = nextID + 1
             /\ todo' = [todo EXCEPT ![c] = Tail(@)]
             /\ UNCHANGED <<store, op, arg, phase, ctx, wtask, paths, rtask, ret>>

\* genDeltaBlobs (Serialize, AllocOne, the key), then uploadDeltaLog's kvs and
\* deltaInfo.
GenDeltaBlobs(c) ==
    /\ phase[c] = "gen"
    /\ todo[c] # <<>>
    /\ Head(todo[c]).t = "delta"
    /\ \E e \in {"nil", "codec", "alloc"} :
        IF e # "nil"
        THEN /\ Leave(c, GenFailure(e))
             /\ UNCHANGED <<store, nextID, issued>>
        ELSE /\ LET blob == SerializeDelete(arg[c].rows)
                    k == DeltaKey(Meta.ID, arg[c].part, arg[c].seg, nextID)
                    v == blob.Value
                IN
                /\ kvs' = [kvs EXCEPT ![c] = MapPut(@, k, v)]
                /\ out' = [out EXCEPT ![c].deltaInfo =
                              Some(<<FieldBinlog(0, Len(v), k, arg[c].rows)>>)]
                /\ issued' = issued \cup {k}
             /\ nextID' = nextID + 1
             /\ todo' = [todo EXCEPT ![c] = Tail(@)]
             /\ UNCHANGED <<store, op, arg, phase, ctx, wtask, paths, rtask, ret>>

\* uploadStatsLog returning its stats logs alone.
UploadRetMut(c, e) ==
    IF e # "nil" THEN Result(e, Nil, Nil)
    ELSE CASE op[c] = "insert" -> Result("nil", out[c].inPaths, Nil)
           [] op[c] = "stats" -> Result("nil", Nil, out[c].statPaths)
           [] op[c] = "delta" -> Result("nil", out[c].deltaInfo, Nil)
           [] OTHER -> Result("nil", Nil, Nil)

\* What an upload returns for writeAll's error e (uploadSegmentFiles called
\* by itself returns the error alone).
UploadRet(c, e) ==
    IF e # "nil" THEN Result(e, Nil, Nil)
    ELSE CASE op[c] = "insert" -> Result("nil", out[c].inPaths, Nil)
           [] op[c] = "stats" -> Result("nil", out[c].inPaths, out[c].statPaths)
           [] op[c] = "delta" -> Result("nil", out[c].deltaInfo, Nil)
           [] OTHER -> Result("nil", Nil, Nil)

\* The calls that run uploadSegmentFiles.
WriteAllOps == {"insert", "stats", "delta", "writeAll"}

\* A key of the caller's own, outside the generated ones.
OwnKey == PathJoin(RootPath, SegmentInsertLogPath, JoinIDPath(<<0, 0, 0, 0, 1>>))

\* The pair sets uploadSegmentFiles is called with by itself.
PairSets == {<<>>, MapPut(<<>>, OwnKey, <<9>>)}

\* uploadSegmentFiles called by itself, with a pair set of the caller's.
CallUploadSegmentFiles(c) ==
    \E kv \in PairSets :
        /\ Free(c)
        /\ op' = [op EXCEPT ![c] = "writeAll"]
        /\ arg' = [arg EXCEPT ![c] = NoArg]
        /\ ctx' = [ctx EXCEPT ![c] = "live"]
        /\ phase' = [phase EXCEPT ![c] = "gen"]
        /\ kvs' = [kvs EXCEPT ![c] = kv]
        /\ todo' = [todo EXCEPT ![c] = <<>>]
        /\ out' = [out EXCEPT ![c] = NoOut]
        /\ ret' = [ret EXCEPT ![c] = NoRet]
        /\ wtask' = [wtask EXCEPT ![c] = <<>>]
        /\ paths' = [paths EXCEPT ![c] = <<>>]
        /\ rtask' = [rtask EXCEPT ![c] = <<>>]
        /\ UNCHANGED <<store, nextID, issued>>

\* uploadSegmentFiles up to AwaitAll: no key, no task; else one task per key.
UploadSegmentFiles(c) ==
    /\ phase[c] = "gen"
    /\ todo[c] = <<>>
    /\ IF DOMAIN kvs[c] = {}
       THEN /\ phase' = [phase EXCEPT ![c] = "done"]
            /\ ret' = [ret EXCEPT ![c] = UploadRet(c, "nil")]
            /\ out' = [out EXCEPT ![c] = NoOut]
            /\ UNCHANGED wtask
       ELSE /\ phase' = [phase EXCEPT ![c] = "await"]
            /\ wtask' = [wtask EXCEPT ![c] =
                            [k \in DOMAIN kvs[c] |-> [pc |-> "queued", err |-> "errStart"]]]
            /\ UNCHANGED <<ret, out>>
    /\ UNCHANGED <<store, nextID, issued, op, arg, ctx, todo, kvs, paths, rtask>>

\* The task's select at the head of its loop: ctx.Done() ends it, the default
\* branch goes on to (sleep and) write.
SelectStep(done) == IF done THEN "canceled" ELSE "writing"

\* A task that writes first and looks at the context after a failure only.
StartWriteMut(c, k) ==
    /\ wtask[c][k].pc = "queued"
    /\ WorkerFree
    /\ wtask' = [wtask EXCEPT ![c][k].pc = "writing"]
    /\ UNCHANGED <<store, nextID, issued, op, arg, phase, ctx, todo, kvs, out,
                   paths, rtask, ret>>

\* The pool starts a submitted write task, which reaches its first select.
StartWrite(c, k) ==
    /\ wtask[c][k].pc = "queued"
    /\ WorkerFree
    /\ wtask' = [wtask EXCEPT ![c][k].pc = SelectStep(Done(ctx[c]))]
    /\ UNCHANGED <<store, nextID, issued, op, arg, phase, ctx, todo, kvs, out,
                   paths, rtask, ret>>

\* The task's select after a failed write.
TaskSelect(c, k) ==
    /\ wtask[c][k].pc = "head"
    /\ wtask' = [wtask EXCEPT ![c][k].pc = SelectStep(Done(ctx[c]))]
    /\ UNCHANGED <<store, nextID, issued, op, arg, phase, ctx, todo, kvs, out,
                   paths, rtask, ret>>

\* b.Write returns nil: the blob is in the store, err = nil ends the loop.
WriteOk(c, k) ==
    /\ wtask[c][k].pc = "writing"
    /\ store' = MapPut(store, k, kvs[c][k])
    /\ wtask' = [wtask EXCEPT ![c][k] = [pc |-> "ok", err |-> "nil"]]
    /\ UNCHANGED <<nextID, issued, op, arg, phase, ctx, todo, kvs, out, paths,
                   rtask, ret>>

\* The errors b.Write may return.
WriteErrs == {"transient", "permanent"}

\* A loop that gives up on an error it takes for permanent.
AfterWriteErrMut(e) == IF e = "permanent" THEN "failed" ELSE "head"

\* Where the loop goes after b.Write returned the error e.
AfterWriteErr(e) == "head"

\* b.Write returns an error: the loop goes round, whatever the error.
WriteFail(c, k) ==
    /\ wtask[c][k].pc = "writing"
    /\ \E e \in WriteErrs :
        wtask' = [wtask EXCEPT ![c][k] = [pc |-> AfterWriteErr(e), err |-> "failed"]]
    /\ UNCHANGED <<store, nextID, issued, op, arg, phase, ctx, todo, kvs, out,
                   paths, rtask, ret>>

\* The caller's context is cancelled while its upload is in progress.
Cancel(c) ==
    /\ op[c] \in WriteAllOps
    /\ phase[c] \in {"gen", "await"}
    /\ ctx[c] = "live"
    /\ ctx' = [ctx EXCEPT ![c] =
                  IF phase[c] = "await" /\ \A k \in DOMAIN wtask[c] : wtask[c][k].pc # "ok"
                  THEN "early" ELSE "done"]
    /\ UNCHANGED <<store, nextID, issued, op, arg, phase, todo, kvs, out, wtask,
                   paths, rtask, ret>>

\* conc.AwaitAll's error once every task of the batch has completed.
AwaitAllErr(c) ==
    IF \E k \in DOMAIN wtask[c] : wtask[c][k].pc = "canceled"
    THEN "errUploadToBlobStorage" ELSE "nil"

\* An await that returns at the first failed task, the others left running.
AwaitAllDoneMut(c) ==
    \/ \E k \in DOMAIN wtask[c] : wtask[c][k].pc = "canceled"
    \/ \A k \in DOMAIN wtask[c] : WriteFinished(wtask[c][k])

\* conc.AwaitAll blocks until every task of the batch has completed.
AwaitAllDone(c) == \A k \in DOMAIN wtask[c] : WriteFinished(wtask[c][k])

\* A rollback: a failed batch deletes what its tasks wrote.
StoreAfterReturnMut(c) ==
    IF AwaitAllErr(c) = "nil" THEN store
    ELSE [k \in DOMAIN store \ DOMAIN kvs[c] |-> store[k]]

\* The store when uploadSegmentFiles returns: no delete, no compensating write.
StoreAfterReturn(c) == store

\* uploadSegmentFiles returns after AwaitAll, and the upload with it.
UploadReturn(c) ==
    /\ phase[c] = "await"
    /\ op[c] \in WriteAllOps
    /\ AwaitAllDone(c)
    /\ phase' = [phase EXCEPT ![c] = "done"]
    /\ ret' = [ret EXCEPT ![c] = UploadRet(c, AwaitAllErr(c))]
    /\ out' = [out EXCEPT ![c] = NoOut]
    /\ store' = StoreAfterReturn(c)
    /\ UNCHANGED <<nextID, issued, op, arg, ctx, todo, kvs, wtask, paths, rtask>>

\* --------------------------------------------------------------- download
\* retry.Attempts(3)
DownloadAttempts == 3

\* merr.IsRetryableErr
IsRetryableErr(e) == e = "transient"

\* A retry on every error.
DownloadRetryErrMut(e) == TRUE

\* retry.RetryErr(merr.IsRetryableErr): the errors download retries on.
DownloadRetryErr(e) == IsRetryableErr(e)

\* The log entries of a returned FieldBinlog map or list.
Entries(x) ==
    IF x.nil THEN {}
    ELSE UNION {{x.v[f].Binlogs[i] : i \in DOMAIN x.v[f].Binlogs} : f \in DOMAIN x.v}

\* The log entries an upload returned.
RetLogs(c) == Entries(ret[c].a) \cup Entries(ret[c].b)

\* The LogPaths the uploads so far returned to their callers.
ReturnedPaths ==
    UNION {{b.LogPath : b \in RetLogs(c)} :
           c \in {x \in Callers : op[x] \in {"insert", "stats", "delta"}}}

\* A key no upload ever generates.
MissingKey == PathJoin(RootPath, SegmentInsertLogPath, JoinIDPath(<<0, 0, 0, 0, 0>>))

\* The key lists a caller may ask for.
PathLists ==
    UNION {[1..m -> issued \cup ReturnedPaths \cup {MissingKey}] : m \in 0..MaxPaths}

Blob(val) == [Value |-> val]

NewRead == [pc |-> "queued", n |-> 0, err |-> "nil", val |-> <<>>]

\* An empty key list rejected with an error.
EmptyDownloadMut == Result("empty", Nil, Nil)

\* download of no key: resp, of length 0, and a nil error.
EmptyDownload == Result("nil", Some(<<>>), Nil)

\* download up to its await loop: no key, no task; else one task per key.
Download(c) ==
    \E ps \in PathLists :
        /\ Free(c)
        /\ op' = [op EXCEPT ![c] = "download"]
        /\ arg' = [arg EXCEPT ![c] = NoArg]
        /\ ctx' = [ctx EXCEPT ![c] = "live"]
        /\ paths' = [paths EXCEPT ![c] = ps]
        /\ todo' = [todo EXCEPT ![c] = <<>>]
        /\ kvs' = [kvs EXCEPT ![c] = <<>>]
        /\ out' = [out EXCEPT ![c] = NoOut]
        /\ wtask' = [wtask EXCEPT ![c] = <<>>]
        /\ IF Len(ps) = 0
           THEN /\ phase' = [phase EXCEPT ![c] = "done"]
                /\ rtask' = [rtask EXCEPT ![c] = <<>>]
                /\ ret' = [ret EXCEPT ![c] = EmptyDownload]
           ELSE /\ phase' = [phase EXCEPT ![c] = "await"]
                /\ rtask' = [rtask EXCEPT ![c] = [i \in 1..Len(ps) |-> NewRead]]
                /\ ret' = [ret EXCEPT ![c] = NoRet]
        /\ UNCHANGED <<store, nextID, issued>>

\* The pool starts a submitted read task.
StartRead(c, i) ==
    /\ rtask[c][i].pc = "queued"
    /\ WorkerFree
    /\ rtask' = [rtask EXCEPT ![c][i].pc = "run"]
    /\ UNCHANGED <<store, nextID, issued, op, arg, phase, ctx, todo, kvs, out,
                   wtask, paths, ret>>

\* b.Read returns the key's bytes: retry.Do returns nil.
ReadOk(c, i) ==
    /\ rtask[c][i].pc = "run"
    /\ paths[c][i] \in DOMAIN store
    /\ rtask' = [rtask EXCEPT ![c][i] =
                    [pc |-> "ok", n |-> @.n + 1, err |-> "nil",
                     val |-> store[paths[c][i]]]]
    /\ UNCHANGED <<store, nextID, issued, op, arg, phase, ctx, todo, kvs, out,
                   wtask, paths, ret>>

\* retry.Do after the n-th call of fn returned e: give up, or go round.
AfterReadErr(e, n) ==
    IF ~DownloadRetryErr(e) \/ n >= DownloadAttempts THEN "fail" ELSE "run"

\* The errors b.Read may return for a key.
ReadErrs(key) == {"transient"} \cup (IF key \in DOMAIN store THEN {} ELSE {"notfound"})

\* b.Read returns an error.
ReadErr(c, i) ==
    /\ rtask[c][i].pc = "run"
    /\ \E e \in ReadErrs(paths[c][i]) :
        rtask' = [rtask EXCEPT ![c][i] =
                     [pc |-> AfterReadErr(e, @.n + 1), n |-> @.n + 1, err |-> e,
                      val |-> <<>>]]
    /\ UNCHANGED <<store, nextID, issued, op, arg, phase, ctx, todo, kvs, out,
                   wtask, paths, ret>>

\* The futures the await loop has passed: the longest prefix of successful tasks.
Awaited(c) ==
    {i \in DOMAIN rtask[c] : \A j \in 1..i : rtask[c][j].pc = "ok"}

\* The failed future of the highest index, whichever futures are still open.
AwaitNextMut(c) ==
    LET failed == {i \in DOMAIN rtask[c] : rtask[c][i].pc = "fail"} IN
    IF failed = {} THEN Cardinality(Awaited(c)) + 1
    ELSE CHOOSE i \in failed : \A j \in failed : j <= i

\* The future the await loop is at: the first it has not found OK.
AwaitNext(c) == Cardinality(Awaited(c)) + 1

\* resp filled from the other end.
DownloadRespMut(c) ==
    [i \in DOMAIN rtask[c] |-> Blob(rtask[c][Len(rtask[c]) + 1 - i].val)]

\* resp once the loop has passed every future.
DownloadResp(c) == [i \in DOMAIN rtask[c] |-> Blob(rtask[c][i].val)]

\* resp as the loop left it, returned with the error.
DownloadFailureMut(c, i) ==
    Result(rtask[c][i].err, Some([j \in 1..(i - 1) |-> Blob(rtask[c][j].val)]), Nil)

\* What download returns when future i is not OK.
DownloadFailure(c, i) == Result(rtask[c][i].err, Nil, Nil)

\* download's await loop: in input order, it returns at the first failed
\* future, or the blobs after the last one.
DownloadReturn(c) ==
    /\ phase[c] = "await"
    /\ op[c] = "download"
    /\ LET next == AwaitNext(c) IN
       IF next > Len(paths[c])
       THEN ret' = [ret EXCEPT ![c] = Result("nil", Some(DownloadResp(c)), Nil)]
       ELSE /\ rtask[c][next].pc = "fail"
            /\ ret' = [ret EXCEPT ![c] = DownloadFailure(c, next)]
    /\ phase' = [phase EXCEPT ![c] = "done"]
    /\ UNCHANGED <<store, nextID, issued, op, arg, ctx, todo, kvs, out, wtask,
                   paths, rtask>>

\* ------------------------------------------------------------ specification
\* What a caller does during an upload.
UploadStep(c) ==
    \/ UploadInsertLog(c)
    \/ UploadStatsLog(c)
    \/ UploadDeltaLog(c)
    \/ GenInsertKey(c)
    \/ GenStatBlobs(c)
    \/ GenDeltaBlobs(c)
    \/ UploadSegmentFiles(c)
    \/ \E k \in DOMAIN wtask[c] : StartWrite(c, k)
    \/ \E k \in DOMAIN wtask[c] : TaskSelect(c, k)
    \/ \E k \in DOMAIN wtask[c] : WriteOk(c, k)
    \/ \E k \in DOMAIN wtask[c] : WriteFail(c, k)
    \/ Cancel(c)
    \/ UploadReturn(c)

\* What a caller does during a download.
DownloadStep(c) ==
    \/ Download(c)
    \/ \E i \in DOMAIN rtask[c] : StartRead(c, i)
    \/ \E i \in DOMAIN rtask[c] : ReadOk(c, i)
    \/ \E i \in DOMAIN rtask[c] : ReadErr(c, i)
    \/ DownloadReturn(c)

\* Concurrent uploads on an empty store.
Next == \E c \in Callers : UploadStep(c)

Spec == Init /\ [][Next]_vars

\* The keys an upload can generate.
AllKeys ==
    LET ids == 1..(Cardinality(Callers) * (Len(Meta.Fields) + 1)) IN
    UNION {{InsertKey(Meta.ID, p, s, Meta.Fields[f], i),
            StatsKey(Meta.ID, p, s, Meta.Fields[1], i),
            DeltaKey(Meta.ID, p, s, i)} :
           <<p, s, f, i>> \in PartIDs \X SegIDs \X (DOMAIN Meta.Fields) \X ids}

\* The pool runs every task it has started or can start, AwaitAll returns
\* once it can, and the store accepts a write that is tried again and again.
Fairness(c) ==
    /\ WF_vars(UploadReturn(c))
    /\ \A k \in AllKeys :
        /\ WF_vars(k \in DOMAIN wtask[c] /\ StartWrite(c, k))
        /\ WF_vars(k \in DOMAIN wtask[c] /\ TaskSelect(c, k))
        /\ SF_vars(k \in DOMAIN wtask[c] /\ WriteOk(c, k))

\* One upload, under that fairness.
NextOne == UploadStep("c1")

FairSpec == Init /\ [][NextOne]_vars /\ Fairness("c1")

\* The stores a download may find: empty, or as earlier uploads of the
\* segment's insert and stats logs left it.
PriorStores ==
    LET ins == SerializeInsert(1)[1]
        st == SerializePkStats(1)
        ki == InsertKey(Meta.ID, 3, 7, ParseInt(ins.Key), 1)
        ks == StatsKey(Meta.ID, 3, 7, ParseInt(st.Key), 2)
    IN {<<>>, MapPut(<<>>, ki, ins.Value), MapPut(MapPut(<<>>, ki, ins.Value), ks, st.Value)}

InitDl ==
    /\ store \in PriorStores
    /\ issued = DOMAIN store
    /\ nextID = Cardinality(DOMAIN store) + 1
    /\ op = [c \in Callers |-> "none"]
    /\ arg = [c \in Callers |-> NoArg]
    /\ phase = [c \in Callers |-> "idle"]
    /\ ctx = [c \in Callers |-> "live"]
    /\ todo = [c \in Callers |-> <<>>]
    /\ kvs = [c \in Callers |-> <<>>]
    /\ out = [c \in Callers |-> NoOut]
    /\ wtask = [c \in Callers |-> <<>>]
    /\ paths = [c \in Callers |-> <<>>]
    /\ rtask = [c \in Callers |-> <<>>]
    /\ ret = [c \in Callers |-> NoRet]

\* A download on a store earlier uploads have filled.
NextDl == DownloadStep("c1")

SpecDl == InitDl /\ [][NextDl]_vars

\* What a caller of uploadSegmentFiles by itself does.
WriteAllStep(c) ==
    \/ CallUploadSegmentFiles(c)
    \/ UploadSegmentFiles(c)
    \/ \E k \in DOMAIN wtask[c] : StartWrite(c, k)
    \/ \E k \in DOMAIN wtask[c] : TaskSelect(c, k)
    \/ \E k \in DOMAIN wtask[c] : WriteOk(c, k)
    \/ \E k \in DOMAIN wtask[c] : WriteFail(c, k)
    \/ Cancel(c)
    \/ UploadReturn(c)

\* A download and a batch write side by side, on a store earlier uploads
\* have filled.
NextBatch == DownloadStep("c1") \/ WriteAllStep("c2")

SpecBatch == InitDl /\ [][NextBatch]_vars

\* The keys an upload running alone can generate.
PoolKeys == {k \in AllKeys : KeyIdx(k) <= Len(Meta.Fields) + 1}

\* The pool runs every task it can start, every backend call returns (with
\* a result or an error), every select is taken, and the awaits return once
\* they can. Nothing makes a write succeed.
PoolFairness ==
    /\ WF_vars(UploadReturn("c1"))
    /\ \A k \in PoolKeys :
        /\ WF_vars(k \in DOMAIN wtask["c1"] /\ StartWrite("c1", k))
        /\ WF_vars(k \in DOMAIN wtask["c1"] /\ TaskSelect("c1", k))
        /\ WF_vars(k \in DOMAIN wtask["c1"] /\ (WriteOk("c1", k) \/ WriteFail("c1", k)))
    /\ WF_vars(DownloadReturn("c2"))
    /\ \A i \in 1..MaxPaths :
        /\ WF_vars(i \in DOMAIN rtask["c2"] /\ StartRead("c2", i))
        /\ WF_vars(i \in DOMAIN rtask["c2"] /\ (ReadOk("c2", i) \/ ReadErr("c2", i)))

\* An upload and a download side by side in the shared pool.
NextPool == UploadStep("c1") \/ DownloadStep("c2")

SpecPool == Init /\ [][NextPool]_vars /\ PoolFairness

\* The same for the tasks of two batches: an upload's, and that of an
\* uploadSegmentFiles called by itself.
PoolFairnessW ==
    /\ WF_vars(UploadReturn("c1"))
    /\ \A k \in PoolKeys :
        /\ WF_vars(k \in DOMAIN wtask["c1"] /\ StartWrite("c1", k))
        /\ WF_vars(k \in DOMAIN wtask["c1"] /\ TaskSelect("c1", k))
        /\ WF_vars(k \in DOMAIN wtask["c1"] /\ (WriteOk("c1", k) \/ WriteFail("c1", k)))
    /\ WF_vars(UploadSegmentFiles("c2"))
    /\ WF_vars(UploadReturn("c2"))
    /\ WF_vars(OwnKey \in DOMAIN wtask["c2"] /\ StartWrite("c2", OwnKey))
    /\ WF_vars(OwnKey \in DOMAIN wtask["c2"] /\ TaskSelect("c2", OwnKey))
    /\ WF_vars(OwnKey \in DOMAIN wtask["c2"]
                   /\ (WriteOk("c2", OwnKey) \/ WriteFail("c2", OwnKey)))

\* Two batches of write tasks side by side in the shared pool.
NextPoolW == UploadStep("c1") \/ WriteAllStep("c2")

SpecPoolW == Init /\ [][NextPoolW]_vars /\ PoolFairnessW

\* An upload, and a download once the upload has returned.
NextRt == UploadStep("c1") \/ (phase["c1"] = "done" /\ DownloadStep("c2"))

SpecRt == Init /\ [][NextRt]_vars

\* ------------------------------------------------------------------ claims
IsUpload(c) == op[c] \in {"insert", "stats", "delta"}
Returned(c) == phase[c] = "done"
Downloaded(c) == op[c] = "download" /\ Returned(c)
Uploaded(c) == IsUpload(c) /\ Returned(c)

\* C1: a successful download of a non-empty key list returns as many blobs as
\* keys, and the i-th blob holds the bytes task i read, which are the bytes
\* the store holds under the i-th key, whatever order the tasks completed in.
C1_DownloadKeepsOrder ==
    \A c \in Callers :
        (Downloaded(c) /\ paths[c] # <<>> /\ ret[c].err = "nil") =>
            /\ ~ret[c].a.nil
            /\ Len(ret[c].a.v) = Len(paths[c])
            /\ \A i \in 1..Len(paths[c]) :
                /\ ret[c].a.v[i].Value = rtask[c][i].val
                /\ paths[c][i] \in DOMAIN store
                /\ ret[c].a.v[i].Value = store[paths[c][i]]

\* A download of two different keys succeeded, the first key's read having
\* taken more attempts than the second's.
C1_Witness ==
    \E c \in Callers :
        /\ Downloaded(c) /\ ret[c].err = "nil"
        /\ Len(paths[c]) = 2 /\ paths[c][1] # paths[c][2]
        /\ rtask[c][1].n > rtask[c][2].n
        /\ ret[c].a.v[1] # ret[c].a.v[2]

\* C4: a download task reads at most DownloadAttempts (3) times; it reads
\* again only after a read that failed with a retryable error, so a
\* non-retryable failure and a success both end the task.
C4_ReadAttempts ==
    /\ [](\A c \in Callers : \A i \in DOMAIN rtask[c] :
            /\ rtask[c][i].n <= 3
            /\ rtask[c][i].pc = "run" /\ rtask[c][i].n > 0 => rtask[c][i].err = "transient"
            /\ rtask[c][i].pc = "ok" => rtask[c][i].err = "nil")
    /\ [][\A c \in Callers : \A i \in DOMAIN rtask[c] :
            (i \in DOMAIN rtask'[c] /\ rtask'[c][i].n # rtask[c][i].n) =>
                /\ rtask'[c][i].n = rtask[c][i].n + 1
                /\ rtask[c][i].n < 3
                /\ rtask[c][i].pc = "run"
                /\ rtask[c][i].n > 0 => rtask[c][i].err = "transient"]_vars

\* One task gave up after three retryable failures, another after a single
\* not-found.
C4_Witness ==
    \E c \in Callers : \E i, j \in DOMAIN rtask[c] :
        /\ rtask[c][i].pc = "fail" /\ rtask[c][i].n = 3 /\ rtask[c][i].err = "transient"
        /\ rtask[c][j].pc = "fail" /\ rtask[c][j].n = 1 /\ rtask[c][j].err = "notfound"

\* C5: a returned download holds either an error and a nil result, or no error
\* and the blobs of tasks that all succeeded; once any task has failed, the
\* call's return is the error with nothing else.
C5_DownloadAllOrNothing ==
    \A c \in Callers :
        Downloaded(c) =>
            /\ ret[c].err # "nil" => ret[c].a = Nil /\ ret[c].b = Nil
            /\ ret[c].err = "nil" => \A i \in DOMAIN rtask[c] : rtask[c][i].pc = "ok"
            /\ (\E i \in DOMAIN rtask[c] : rtask[c][i].pc = "fail") => ret[c].err # "nil"

\* A download failed although one of its tasks had fetched its blob.
C5_Witness ==
    \E c \in Callers :
        /\ Downloaded(c) /\ ret[c].err # "nil"
        /\ rtask[c][1].pc = "ok" /\ rtask[c][1].val # <<>>
        /\ rtask[c][2].pc = "fail"

\* C2: an upload whose context was cancelled during writeAll, before any
\* write of the batch had succeeded, returns errUploadToBlobStorage.
C2_EarlyCancelFails ==
    \A c \in Callers :
        (Uploaded(c) /\ ctx[c] = "early") => ret[c].err = "errUploadToBlobStorage"

\* C3: a write task never ends but by a successful write or an observed
\* cancellation, however its writes failed; after a failed write it goes to
\* the next write while the context is live; writeAll's only error is
\* errUploadToBlobStorage, returned only with the context cancelled; and, the
\* store accepting a write tried again and again, a call whose context stays
\* live returns success.
C3_RetryUntilCancel ==
    /\ [](\A c \in Callers : \A k \in DOMAIN wtask[c] :
            /\ wtask[c][k].pc \in {"queued", "writing", "head", "ok", "canceled"}
            /\ wtask[c][k].pc = "canceled" => Done(ctx[c])
            /\ wtask[c][k].pc = "ok" => k \in DOMAIN store)
    /\ [](\A c \in Callers :
            (Uploaded(c) /\ wtask[c] # <<>>) =>
                /\ ret[c].err \in {"nil", "errUploadToBlobStorage"}
                /\ ret[c].err # "nil" => Done(ctx[c]))
    /\ [][\A c \in Callers : \A k \in DOMAIN wtask[c] :
            (wtask[c][k].pc = "head" /\ wtask'[c][k].pc # "head") =>
                wtask'[c][k].pc = IF Done(ctx[c]) THEN "canceled" ELSE "writing"]_vars
    /\ \A c \in Callers :
            (phase[c] = "await") ~>
                (Returned(c) /\ (ctx[c] = "live" => ret[c].err = "nil"))

\* With the context live, one task of a batch has written its blob and another
\* is at its next write after a failed one.
C3_Witness ==
    \E c \in Callers :
        /\ phase[c] = "await" /\ ctx[c] = "live"
        /\ \E j, k \in DOMAIN wtask[c] :
               /\ wtask[c][j].pc = "ok" /\ j \in DOMAIN store
               /\ wtask[c][k].pc = "writing" /\ wtask[c][k].err = "failed"

\* The keys of kvs under a log type's subpath.
KeysOf(c, sub) == {k \in DOMAIN kvs[c] : k[2] = sub}

\* C6: every generated key is new (never generated before, by any call), no
\* two calls hold a key in common, and a blob in the store is never replaced.
C6_KeysNeverReused ==
    /\ [](\A c, d \in Callers : c # d => DOMAIN kvs[c] \cap DOMAIN kvs[d] = {})
    /\ [](\A k \in DOMAIN store : \E c \in Callers : k \in DOMAIN kvs[c] /\ store[k] = kvs[c][k])
    /\ [][/\ \A c \in Callers : \A k \in DOMAIN kvs'[c] \ DOMAIN kvs[c] : k \notin issued
          /\ nextID' # nextID => Cardinality(issued') = Cardinality(issued) + 1
          /\ \A k \in DOMAIN store : k \in DOMAIN store' /\ store'[k] = store[k]]_vars

\* Two flushes of the same field of the same segment write at the same time.
C6_Witness ==
    /\ \A c \in Callers : op[c] = "insert" /\ phase[c] = "await"
    /\ \A c \in Callers : \E k \in DOMAIN wtask[c] : wtask[c][k].pc = "writing"
    /\ arg["c1"] = arg["c2"]

\* C7: uploadInsertLog with an empty batch and uploadDeltaLog with no row
\* return (nil, nil) at once: no ID is drawn, no blob is serialized, no key is
\* generated, no task exists and the store is as before.
C7_EmptyUploadIsNoOp ==
    /\ [](\A c \in Callers :
            (op[c] \in {"insert", "delta"} /\ arg[c].rows = 0) =>
                /\ Returned(c)
                /\ ret[c] = Result("nil", Nil, Nil)
                /\ kvs[c] = <<>> /\ wtask[c] = <<>> /\ todo[c] = <<>>)
    /\ [][\A c \in Callers :
            (op'[c] # op[c] /\ op'[c] \in {"insert", "delta"} /\ arg'[c].rows = 0) =>
                nextID' = nextID /\ store' = store /\ issued' = issued]_vars

\* Both callers made such a call, and no ID was drawn nor blob written.
C7_Witness ==
    /\ op["c1"] = "insert" /\ arg["c1"].rows = 0 /\ Returned("c1")
    /\ op["c2"] = "delta" /\ arg["c2"].rows = 0 /\ Returned("c2")
    /\ nextID = 1 /\ store = <<>>

\* C8: a successful uploadStatsLog has written exactly one stats blob, under
\* one key whose ID no other key has, and returns statsLogs with that key;
\* with an empty batch insertLogs is nil and the batch held the stats blob
\* alone, else the batch held one insert blob per field as well.
C8_StatsAlwaysWritten ==
    \A c \in Callers :
        (op[c] = "stats" /\ Returned(c) /\ ret[c].err = "nil") =>
            LET sk == KeysOf(c, SegmentStatslogPath)
                ik == KeysOf(c, SegmentInsertLogPath)
            IN
            /\ Cardinality(sk) = 1
            /\ \A k \in sk :
                /\ k \in DOMAIN store /\ store[k] = SerializePkStats(arg[c].tot).Value
                /\ \A k2 \in issued \ {k} : KeyIdx(k2) # KeyIdx(k)
                /\ ~ret[c].b.nil
                /\ DOMAIN ret[c].b.v = {Meta.Fields[1]}
                /\ \A f \in DOMAIN ret[c].b.v : ret[c].b.v[f].Binlogs[1].LogPath = k
            /\ DOMAIN wtask[c] = sk \cup ik
            /\ \A k \in DOMAIN wtask[c] : wtask[c][k].pc = "ok" /\ k \in DOMAIN store
            /\ arg[c].rows = 0 => ret[c].a = Nil /\ ik = {}
            /\ arg[c].rows # 0 =>
                /\ ~ret[c].a.nil
                /\ Cardinality(ik) = Len(Meta.Fields)
                /\ {ret[c].a.v[f].Binlogs[1].LogPath : f \in DOMAIN ret[c].a.v} = ik

\* One uploadStatsLog succeeded with an empty batch, another with rows.
C8_Witness ==
    \E c, d \in Callers :
        /\ op[c] = "stats" /\ Returned(c) /\ ret[c].err = "nil" /\ arg[c].rows = 0
        /\ op[d] = "stats" /\ Returned(d) /\ ret[d].err = "nil" /\ arg[d].rows = 1

\* C9: an upload that returns a codec or an allocator error returns nil
\* results, has submitted no task, and none of the keys it generated is in
\* the store.
C9_GenErrorWritesNothing ==
    \A c \in Callers :
        (Uploaded(c) /\ ret[c].err \in {"codec", "alloc"}) =>
            /\ ret[c].a = Nil /\ ret[c].b = Nil
            /\ wtask[c] = <<>>
            /\ DOMAIN kvs[c] \cap DOMAIN store = {}

\* uploadStatsLog failed on the stats blob after it had keyed an insert blob.
C9_Witness ==
    \E c \in Callers :
        /\ op[c] = "stats" /\ Returned(c) /\ ret[c].err \in {"codec", "alloc"}
        /\ DOMAIN kvs[c] # {}

\* C10: after writeAll failed with the cancellation error, every blob a task
\* of the batch wrote is in the store with its payload; the return changes
\* nothing in the store.
C10_NoRollback ==
    /\ [](\A c \in Callers :
            (Uploaded(c) /\ ret[c].err = "errUploadToBlobStorage") =>
                \A k \in DOMAIN wtask[c] :
                    wtask[c][k].pc = "ok" => k \in DOMAIN store /\ store[k] = kvs[c][k])
    /\ [][\A c \in Callers : (phase[c] = "await" /\ phase'[c] = "done") => store' = store]_vars

\* A batch failed with one of its two blobs written and the other not.
C10_Witness ==
    \E c \in Callers :
        /\ Uploaded(c) /\ ret[c].err = "errUploadToBlobStorage"
        /\ \E k \in DOMAIN wtask[c] : wtask[c][k].pc = "ok" /\ k \in DOMAIN store
        /\ \E k \in DOMAIN wtask[c] : wtask[c][k].pc = "canceled" /\ k \notin DOMAIN store


Succeeded(c) == Uploaded(c) /\ ret[c].err = "nil"

\* The keys a call's tasks wrote.
Written(c) == {k \in DOMAIN wtask[c] : wtask[c][k].pc = "ok"}

\* C11: every log entry a successful upload returns names a key the call
\* wrote, and its LogSize is the length of the bytes the store holds under
\* that key, which are the bytes of the call's batch.
C11_LogSizeIsPayloadLength ==
    \A c \in Callers :
        Succeeded(c) =>
            \A b \in RetLogs(c) :
                /\ b.LogPath \in Written(c)
                /\ b.LogPath \in DOMAIN store
                /\ store[b.LogPath] = kvs[c][b.LogPath]
                /\ b.LogSize = Len(store[b.LogPath])

\* A successful uploadStatsLog returned entries of different sizes, one of
\* them with a size that is not its row count.
C11_Witness ==
    \E c \in Callers :
        /\ Succeeded(c) /\ op[c] = "stats"
        /\ \E a, b \in RetLogs(c) : a.LogSize # b.LogSize /\ b.LogSize # b.EntriesNum


\* The payload the codec produced for field f of a batch of `rows` rows.
Payload(rows, f) ==
    LET inlogs == SerializeInsert(rows)
        i == CHOOSE j \in DOMAIN inlogs : ParseInt(inlogs[j].Key) = f
    IN inlogs[i].Value

\* C12: after a successful uploadInsertLog, a download whose i-th key is the
\* LogPath returned for a field finds the key in the store, and the i-th task
\* that succeeds holds, and a successful download returns as the i-th blob,
\* the bytes the codec produced for that field.
C12_RoundTrip ==
    \A c, d \in Callers :
        (op[c] = "insert" /\ Succeeded(c) /\ op[d] = "download") =>
            \A f \in DOMAIN ret[c].a.v : \A i \in DOMAIN paths[d] :
                paths[d][i] = ret[c].a.v[f].Binlogs[1].LogPath =>
                    /\ rtask[d][i].err # "notfound"
                    /\ rtask[d][i].pc = "ok" =>
                           rtask[d][i].val = Payload(arg[c].rows, f)
                    /\ (Returned(d) /\ ret[d].err = "nil") =>
                           ret[d].a.v[i].Value = Payload(arg[c].rows, f)

\* A download of the LogPath an uploadInsertLog returned gave back the
\* field's column.
C12_Witness ==
    \E c, d \in Callers :
        /\ op[c] = "insert" /\ Succeeded(c) /\ arg[c].rows = 1
        /\ Downloaded(d) /\ ret[d].err = "nil"
        /\ \E f \in DOMAIN ret[c].a.v :
            /\ paths[d] = <<ret[c].a.v[f].Binlogs[1].LogPath>>
            /\ ret[d].a.v[1].Value = <<f>>


\* The root, a subpath, then the decimal forms of ids, one segment each.
Layout(sub, ids) == <<RootPath, sub>> \o [i \in 1..Len(ids) |-> FormatInt(ids[i])]

\* The field IDs of the schema.
FieldIDs == {Meta.Fields[i] : i \in DOMAIN Meta.Fields}

\* C13 as stated: every generated key, of any of the three log types, is the
\* root, the type's subpath, then collection/partition/segment/field/
\* disambiguator.
C13_FiveSegmentKeys ==
    \A c \in Callers : \A k \in DOMAIN kvs[c] :
        \E sub \in {SegmentInsertLogPath, SegmentStatslogPath, SegmentDeltaLogPath} :
        \E f \in FieldIDs \cup {0} : \E idx \in 1..nextID :
            k = Layout(sub, <<Meta.ID, arg[c].part, arg[c].seg, f, idx>>)

\* C13, amended: an insert key and a stats key are the root, the type's own
\* subpath, then collection/partition/segment/field/disambiguator; a delta
\* key is the root, the delta subpath, then collection/partition/segment/
\* disambiguator, without a field segment. The subpaths differ, the
\* disambiguator is an allocated ID, and the returned entries carry the key
\* of their type.
C13_KeyLayout ==
    /\ Cardinality({SegmentInsertLogPath, SegmentStatslogPath, SegmentDeltaLogPath}) = 3
    /\ \A c \in Callers :
        LET a == arg[c]
            ins(k) == \E f \in FieldIDs :
                         k = Layout(SegmentInsertLogPath,
                                    <<Meta.ID, a.part, a.seg, f, KeyIdx(k)>>)
            sts(k) == k = Layout(SegmentStatslogPath,
                                 <<Meta.ID, a.part, a.seg, Meta.Fields[1], KeyIdx(k)>>)
            dlt(k) == k = Layout(SegmentDeltaLogPath,
                                 <<Meta.ID, a.part, a.seg, KeyIdx(k)>>)
        IN
        /\ \A k \in DOMAIN kvs[c] :
            /\ KeyIdx(k) \in 1..(nextID - 1)
            /\ op[c] = "insert" => ins(k)
            /\ op[c] = "stats" => ins(k) \/ sts(k)
            /\ op[c] = "delta" => dlt(k)
        /\ (op[c] = "stats" /\ phase[c] = "await") => \E k \in DOMAIN kvs[c] : sts(k)
        /\ Succeeded(c) =>
            /\ op[c] \in {"insert", "stats"} => \A b \in Entries(ret[c].a) : ins(b.LogPath)
            /\ op[c] = "stats" => \A b \in Entries(ret[c].b) : sts(b.LogPath)
            /\ op[c] = "delta" => \A b \in Entries(ret[c].a) : dlt(b.LogPath)

\* Keys of the three log types have been generated.
C13_Witness ==
    \E c, d \in Callers :
        /\ op[c] = "stats" /\ Cardinality(DOMAIN kvs[c]) = 2
        /\ op[d] = "delta" /\ DOMAIN kvs[d] # {}
        /\ \A k \in DOMAIN kvs[d] : Len(k) = 6


\* C14: download of an empty key list returns at once an empty result and a
\* nil error, and uploadSegmentFiles of an empty pair set returns at once a
\* nil error; neither submits a task nor changes the store, and no task of
\* such a call ever exists to read or write.
C14_EmptyBatchIsNoOp ==
    /\ [](\A c \in Callers :
            (op[c] = "download" /\ paths[c] = <<>>) =>
                /\ Returned(c)
                /\ ~ret[c].a.nil /\ ret[c].a.v = <<>> /\ ret[c].err = "nil"
                /\ rtask[c] = <<>>)
    /\ [](\A c \in Callers :
            (op[c] = "writeAll" /\ kvs[c] = <<>>) =>
                /\ wtask[c] = <<>>
                /\ Returned(c) => ret[c].err = "nil")
    /\ [][\A c \in Callers :
            /\ (op[c] # "download" /\ op'[c] = "download" /\ paths'[c] = <<>>) =>
                   store' = store
            /\ (op[c] = "writeAll" /\ kvs[c] = <<>> /\ phase[c] = "gen"
                   /\ phase'[c] # phase[c]) =>
                   phase'[c] = "done" /\ store' = store]_vars

\* Both empty calls have returned, and the store is as it was, not empty.
C14_Witness ==
    /\ Downloaded("c1") /\ paths["c1"] = <<>>
    /\ op["c2"] = "writeAll" /\ kvs["c2"] = <<>> /\ Returned("c2")
    /\ store \in PriorStores /\ store # <<>>


\* C15: when uploadSegmentFiles has returned, with a nil error or not, every
\* task of its batch has ended by a write or by cancellation, and from then
\* on no task of the batch moves and no key of the batch enters the store.
C15_ReturnsAfterAllTasks ==
    /\ [](\A c \in Callers :
            (Uploaded(c) /\ wtask[c] # <<>>) =>
                \A k \in DOMAIN wtask[c] : wtask[c][k].pc \in {"ok", "canceled"})
    /\ [][\A c \in Callers :
            (Uploaded(c) /\ wtask[c] # <<>>) =>
                /\ wtask'[c] = wtask[c]
                /\ \A k \in DOMAIN kvs[c] : k \in DOMAIN store' <=> k \in DOMAIN store]_vars

\* A batch of two returned the cancellation error: one task had seen the
\* cancellation after a failed write, the other before its first write.
C15_Witness ==
    \E c \in Callers :
        /\ Uploaded(c) /\ ret[c].err = "errUploadToBlobStorage"
        /\ \E j, k \in DOMAIN wtask[c] :
            /\ wtask[c][j] = [pc |-> "canceled", err |-> "failed"]
            /\ wtask[c][k] = [pc |-> "canceled", err |-> "errStart"]


\* C16: a download task reads its key at most 3 times, and every download
\* call returns, whatever an upload is doing in the pool meanwhile.
C16_DownloadReturns ==
    /\ [](\A c \in Callers : \A i \in DOMAIN rtask[c] : rtask[c][i].n <= 3)
    /\ \A c \in Callers : (op[c] = "download") ~> Returned(c)


\* C17 as stated: a task that ended with the cancellation error had made a
\* write attempt of its own, which failed.
C17_WriteBeforeCheck ==
    \A c \in Callers : \A k \in DOMAIN wtask[c] :
        wtask[c][k].pc = "canceled" => wtask[c][k].err = "failed"

\* C17, amended: a task checks the context at the head of every round, the
\* first included, and writes after the check. Started with the context
\* cancelled it ends with the cancellation error and no write attempt; a
\* write is followed by the task's end (success) or by the next check
\* (failure); the cancellation error comes from a check alone, before the
\* first attempt or after a failed one.
C17_CheckBeforeWrite ==
    /\ [](\A c \in Callers : \A k \in DOMAIN wtask[c] :
            /\ wtask[c][k].pc = "canceled" =>
                   Done(ctx[c]) /\ wtask[c][k].err \in {"errStart", "failed"}
            /\ wtask[c][k].pc = "queued" => wtask[c][k].err = "errStart"
            /\ wtask[c][k].pc = "ok" => wtask[c][k].err = "nil")
    /\ [][\A c \in Callers : \A k \in DOMAIN wtask[c] :
            k \in DOMAIN wtask'[c] =>
                LET t == wtask[c][k]
                    u == wtask'[c][k]
                IN
                /\ (t.pc = "queued" /\ u.pc # "queued") =>
                       /\ u.err = "errStart"
                       /\ u.pc = IF Done(ctx[c]) THEN "canceled" ELSE "writing"
                /\ (t.pc = "writing" /\ u.pc # "writing") =>
                       \/ u.pc = "ok" /\ k \in DOMAIN store'
                       \/ u.pc = "head" /\ u.err = "failed"
                /\ (u.pc = "canceled" /\ t.pc # "canceled") =>
                       t.pc \in {"queued", "head"} /\ store' = store]_vars

\* A task ended with the cancellation error before any write attempt, its
\* batch still awaited and the store empty.
C17_Witness ==
    \E c \in Callers : \E k \in DOMAIN wtask[c] :
        /\ wtask[c][k] = [pc |-> "canceled", err |-> "errStart"]
        /\ phase[c] = "await"
        /\ store = <<>>


\* C18: once a batch's context is cancelled, no task of it goes on to a
\* write it had not begun (so each makes at most the one attempt it was in),
\* and every task of the batch ends.
C18_CancelEndsTasks ==
    /\ [][\A c \in Callers : \A k \in DOMAIN wtask[c] :
            (Done(ctx[c]) /\ k \in DOMAIN wtask'[c]
                /\ wtask[c][k].pc \in {"queued", "head"}) =>
                    wtask'[c][k].pc \in {wtask[c][k].pc, "canceled"}]_vars
    /\ \A c \in Callers :
            (phase[c] = "await" /\ Done(ctx[c])) ~>
                (\A k \in DOMAIN wtask[c] : wtask[c][k].pc \in {"ok", "canceled"})


\* C19: a download that returns an error returns the error of a failed task
\* all of whose predecessors in input order succeeded, hence of the failed
\* key of the lowest index whatever fails later or failed earlier; it has
\* not waited for the tasks after it, and what they do later does not change
\* what was returned.
C19_LowestIndexError ==
    /\ [](\A c \in Callers :
            (Downloaded(c) /\ ret[c].err # "nil") =>
                \E i \in DOMAIN rtask[c] :
                    /\ rtask[c][i].pc = "fail"
                    /\ ret[c].err = rtask[c][i].err
                    /\ \A j \in 1..(i - 1) : rtask[c][j].pc = "ok")
    /\ [][\A c \in Callers : Downloaded(c) => ret'[c] = ret[c]]_vars

\* download returned the first key's error while the second key's task,
\* which fails with another error, was still reading.
C19_Witness ==
    \E c \in Callers :
        /\ Downloaded(c) /\ ret[c].err = "transient"
        /\ Len(paths[c]) = 2 /\ paths[c][2] = MissingKey
        /\ rtask[c][1].pc = "fail"
        /\ rtask[c][2].pc = "run"


\* The FieldBinlogs of a returned map or list.
FieldLogs(x) == IF x.nil THEN {} ELSE {x.v[f] : f \in DOMAIN x.v}

\* The keys a call of its kind and batch has to write: one per field of a
\* batch with rows, and the stats blob's or the delta blob's.
KeysDue(c) ==
    LET fields == IF arg[c].rows > 0 THEN Len(Meta.Fields) ELSE 0 IN
    CASE op[c] = "insert" -> fields
      [] op[c] = "stats" -> fields + 1
      [] OTHER -> IF arg[c].rows > 0 THEN 1 ELSE 0

\* C20: for a successful upload, the LogPaths of the entries it returns are
\* exactly the keys its tasks wrote, which are the keys of its batch and are
\* in the store; every returned FieldBinlog has one entry; the keys are as
\* many as the call's kind and batch require, each ends in an ID of its own,
\* and the allocator has handed out as many IDs as keys were generated.
C20_KeysWrittenAreLogPaths ==
    /\ nextID - 1 = Cardinality(issued)
    /\ \A c \in Callers :
        Succeeded(c) =>
            /\ {b.LogPath : b \in RetLogs(c)} = Written(c)
            /\ Written(c) = DOMAIN kvs[c]
            /\ Written(c) \subseteq DOMAIN store
            /\ \A fb \in FieldLogs(ret[c].a) \cup FieldLogs(ret[c].b) : Len(fb.Binlogs) = 1
            /\ Cardinality(Written(c)) = KeysDue(c)
            /\ Cardinality({KeyIdx(k) : k \in Written(c)}) = Cardinality(Written(c))
            /\ \A k \in Written(c) : KeyIdx(k) \in 1..(nextID - 1)

\* An uploadStatsLog of a batch with rows and an uploadDeltaLog both
\* succeeded: three keys written, three IDs handed out.
C20_Witness ==
    \E c, d \in Callers :
        /\ Succeeded(c) /\ op[c] = "stats" /\ Cardinality(Written(c)) = 2
        /\ Succeeded(d) /\ op[d] = "delta" /\ Cardinality(Written(d)) = 1
        /\ nextID = 4

====
